---- MODULE Spec2Model ----
(***************************************************************************)
(* A model of the terminal epub reader in src/main.rs: the start-up        *)
(* sequence of App::run (progress load, container open, parallel page      *)
(* extraction, seeding of the reader state), the event loop (draw, insert  *)
(* and save progress, wait for one event, dispatch it) and the handlers    *)
(* that change the App struct.                                             *)
(*                                                                         *)
(* A page's plain text is modelled as the sequence of its lines, each line *)
(* being the number of whitespace-delimited words on it: this keeps what   *)
(* the program reads from the text (lines() in render, split_whitespace()  *)
(* .count() in calculate_reading_time).                                    *)
(***************************************************************************)
EXTENDS Integers, Sequences, FiniteSets, TLC

\* ------------------------------------------------------------------ bounds
\* Largest page count of the documents that are opened.
MaxPages == 3
\* Largest number of rayon worker threads that extract pages at once.
MaxWorkers == 2
\* scroll_down is followed up to this distance from 0 (and from the top of
\* the u16 range, see ScrollBounded).
MaxScroll == 3

\* ------------------------------------------------------- program constants
\* page, pages, wpm and scroll_offset are u16 fields of App.
U16 == 65536
\* default_value_t of Args::words_per_minute.
DefaultWpm == 238
\* f32 has a 24 bit significand.
F32Digits == 24

\* ------------------------------------------------------------------ inputs
\* The path given with --path, and the key of another document that an
\* earlier session may have left in progress.json.
ThePath == "book.epub"
OtherPath == "other.epub"

\* The markup of page i (0-based) of a document of family kind. A page's
\* markup is its head (the number of words of text outside <body>) and the
\* text nodes under <body> in document order (each its number of words).
\* Family "prose": one long paragraph per page, 238, 239, ... words.
\* Family "verse": page i holds i one-word nodes after a two-word heading.
\* Family "tract": one short paragraph per page, 49, 50, ... words.
MarkupOf(kind, i) ==
    CASE kind = "prose" -> [head |-> 1, body |-> << DefaultWpm + i >>]
      [] kind = "tract" -> [head |-> 1, body |-> << 49 + i >>]
      [] OTHER -> [head |-> 0, body |-> <<2>> \o [j \in 1..i |-> 1]]

DocKinds == {"prose", "verse"}

\* The metadata of the container in HashMap iteration order.
MetadataSet ==
    { << >>,
      << [key |-> "creator", values |-> <<"A", "B">>],
         [key |-> "title", values |-> <<"T">>] >> }

\* What --words-per-minute may be.
WpmSet == {DefaultWpm}


\* ----------------------------------------------------------------- helpers
\* Option<T>: None is the empty sequence, Some(x) the one-element sequence.
None == << >>
Some(x) == << x >>

\* An insert that keeps the value of a key that is present (or_insert).
Insert_keep(m, k, v) ==
    [x \in (DOMAIN m) \cup {k} |-> IF x \in DOMAIN m THEN m[x] ELSE v]

\* HashMap<String, u16>.
EmptyMap == [k \in {} |-> 0]

Insert(m, k, v) == [x \in (DOMAIN m) \cup {k} |-> IF x = k THEN v ELSE m[x]]

RECURSIVE SumSeq(_)
SumSeq(s) == IF s = << >> THEN 0 ELSE Head(s) + SumSeq(Tail(s))

RECURSIVE Pow2(_)
Pow2(n) == IF n = 0 THEN 1 ELSE 2 * Pow2(n - 1)

\* The lines of s after the first n, at most h of them (skip(n).take(h)).
SkipTake(s, n, h) ==
    IF n >= Len(s) THEN << >>
    ELSE SubSeq(s, n + 1, IF n + h < Len(s) THEN n + h ELSE Len(s))

\* ------------------------------------------------------------ progress.json
\* The file is absent, or holds text. The text of a JSON object is modelled
\* by its members, each a key and the decimal digits of its value; any other
\* text (an empty or cut-off file, something that is not JSON) is not well
\* formed.
RECURSIVE ToDigits(_)
ToDigits(n) == IF n < 10 THEN << n >> ELSE Append(ToDigits(n \div 10), n % 10)

RECURSIVE FromDigits(_)
FromDigits(d) ==
    IF Len(d) = 1 THEN d[1]
    ELSE 10 * FromDigits(SubSeq(d, 1, Len(d) - 1)) + d[Len(d)]

Missing == [exists |-> FALSE, wellFormed |-> FALSE, members |-> {}]
Garbled == [exists |-> TRUE, wellFormed |-> FALSE, members |-> {}]
JsonText(members) == [exists |-> TRUE, wellFormed |-> TRUE, members |-> members]

\* A save that writes only the entry of the open document.
to_string_own(m) ==
    [exists |-> TRUE, wellFormed |-> TRUE,
     members |-> { [key |-> k, digits |-> ToDigits(m[k])] :
                     k \in (DOMAIN m) \cap {ThePath} }]

\* serde_json::to_string(&self.progress)
to_string(m) ==
    JsonText({ [key |-> k, digits |-> ToDigits(m[k])] : k \in DOMAIN m })

\* serde_json::from_str::<HashMap<String, u16>>(&data): Ok(map) is Some(map),
\* any Err is None. A number that does not fit u16 is an error.
from_str(f) ==
    IF ~f.wellFormed THEN None
    ELSE IF \E e \in f.members : Len(e.digits) > 5 \/ FromDigits(e.digits) >= U16
    THEN None
    ELSE Some([k \in { e.key : e \in f.members } |->
                 FromDigits((CHOOSE e \in f.members : e.key = k).digits)])

\* What progress.json may hold when the program starts.
InitialFiles ==
    { Missing, Garbled, to_string(EmptyMap),
      JsonText({[key |-> ThePath, digits |-> <<7, 0, 0, 0, 0>>]}) }
    \cup { to_string(Insert(EmptyMap, ThePath, v)) : v \in {0, 1, MaxPages} }
    \cup { to_string(Insert(Insert(EmptyMap, OtherPath, 1), ThePath, 1)) }


\* --------------------------------------------------------- f32 arithmetic
\* The f32 values calculate_reading_time meets are non-negative and below
\* 2^24; such a value is m * 2^(-k) with m an integer of at most 24 bits.
\* Division and multiplication round to nearest, ties to even, as IEEE 754
\* single precision does.
RECURSIVE QuotientBits(_, _, _, _)
QuotientBits(m, r, d, k) ==
    IF m >= Pow2(F32Digits - 1) THEN [m |-> m, r |-> r, k |-> k]
    ELSE QuotientBits(2 * m + (IF 2 * r >= d THEN 1 ELSE 0),
                      IF 2 * r >= d THEN 2 * r - d ELSE 2 * r, d, k + 1)

\* n as f32 / d as f32, for integers 0 <= n < 2^24 and 0 < d < 2^16.
DivF32(n, d) ==
    IF n = 0 THEN [m |-> 0, k |-> 0]
    ELSE LET q == QuotientBits(n \div d, n % d, d, 0)
             up == 2 * q.r > d \/ (2 * q.r = d /\ q.m % 2 = 1)
         IN [m |-> IF up THEN q.m + 1 ELSE q.m, k |-> q.k]

RECURSIVE ExtraBits(_)
ExtraBits(p) == IF p < Pow2(F32Digits) THEN 0 ELSE 1 + ExtraBits(p \div 2)

\* x * c for an f32 x and a small integer constant c.
MulF32(x, c) ==
    LET p == x.m * c
        s == ExtraBits(p)
        q == p \div Pow2(s)
        rem == p % Pow2(s)
        up == s > 0 /\ (2 * rem > Pow2(s) \/ (2 * rem = Pow2(s) /\ q % 2 = 1))
    IN [m |-> IF up THEN q + 1 ELSE q, k |-> x.k - s]

\* x.ceil() as u32
CeilF32(x) ==
    IF x.k <= 0 THEN x.m * Pow2(0 - x.k)
    ELSE IF x.m = 0 THEN 0
    ELSE IF x.k >= 30 THEN 1
    ELSE (x.m + Pow2(x.k) - 1) \div Pow2(x.k)

\* ------------------------------------------------------------- struct App
DefaultApp ==
    [content |-> << >>, text |-> << >>, page |-> 0, pages |-> 0, path |-> "",
     wpm |-> 0, exit |-> FALSE, scroll_offset |-> 0, progress |-> EmptyMap,
     popup_text |-> None, show_metadata |-> None, metadata |-> << >>]

\* extract_text_from_xhtml: the text nodes under <body>, joined by newlines;
\* text outside <body> is not selected.
extract_text_from_xhtml(xhtml) == xhtml.body

exit(self) == [self EXCEPT !.exit = TRUE]

\* next_page as it would be without the refresh of the cached text.
next_page_stale(self) ==
    IF self.page # (self.pages - 1) % U16
    THEN [self EXCEPT !.page = (self.page + 1) % U16, !.scroll_offset = 0]
    ELSE self

\* next_page as it would be if the scroll reset were placed after the if.
next_page_resets(self) ==
    IF self.page # (self.pages - 1) % U16
    THEN [self EXCEPT !.page = (self.page + 1) % U16,
                      !.text = self.content[((self.page + 1) % U16) + 1],
                      !.scroll_offset = 0]
    ELSE [self EXCEPT !.scroll_offset = 0]

\* next_page as it would be without the scroll reset.
next_page_keeps_scroll(self) ==
    IF self.page # (self.pages - 1) % U16
    THEN [self EXCEPT !.page = (self.page + 1) % U16,
                      !.text = self.content[((self.page + 1) % U16) + 1]]
    ELSE self

next_page(self) ==
    IF self.page # (self.pages - 1) % U16
    THEN [self EXCEPT !.page = (self.page + 1) % U16,
                      !.text = self.content[((self.page + 1) % U16) + 1],
                      !.scroll_offset = 0]
    ELSE self

\* previous_page as it would be without the refresh of the cached text.
previous_page_stale(self) ==
    IF self.page # 0
    THEN [self EXCEPT !.page = self.page - 1, !.scroll_offset = 0]
    ELSE self

previous_page(self) ==
    IF self.page # 0
    THEN [self EXCEPT !.page = self.page - 1,
                      !.text = self.content[(self.page - 1) + 1],
                      !.scroll_offset = 0]
    ELSE self

\* scroll_up as it would be without the guard, in a build that wraps.
scroll_up_unchecked(self) ==
    [self EXCEPT !.scroll_offset = (self.scroll_offset - 1) % U16]

scroll_up(self) ==
    IF self.scroll_offset > 0
    THEN [self EXCEPT !.scroll_offset = self.scroll_offset - 1]
    ELSE self

\* self.scroll_offset += 1 on a u16. At 65535 the addition overflows: a build
\* with overflow checks (the debug profile) panics, a build without them (the
\* release profile) wraps to 0.
scroll_down_overflows(self) == self.scroll_offset + 1 >= U16

scroll_down(self) ==
    [self EXCEPT !.scroll_offset = (self.scroll_offset + 1) % U16]

calculate_reading_time(self) ==
    LET word_count == SumSeq(self.text)
    IN CeilF32(MulF32(DivF32(word_count, self.wpm), 60))

show_reading_time(self) ==
    [self EXCEPT !.popup_text =
        Some([seconds |-> calculate_reading_time(self), wpm |-> self.wpm])]

\* One "\n key:  v1, v2\n" piece per entry in iteration order, then the hint.
format_metadata(self) ==
    [i \in 1..Len(self.metadata) |->
        [key |-> self.metadata[i].key, joined |-> self.metadata[i].values]]
    \o << [key |-> "Press <C> to close pop-up!", joined |-> << >>] >>

show_metadata(self) ==
    [self EXCEPT !.show_metadata = Some(format_metadata(self))]

\* handle_key_event as it would be if <c> closed the reading-time popup only.
handle_key_event_keeps_metadata(self, code) ==
    CASE code = "q" -> [self EXCEPT !.exit = TRUE]
      [] code = "Left" -> previous_page(self)
      [] code = "Right" -> next_page(self)
      [] code = "Up" -> scroll_up(self)
      [] code = "Down" -> scroll_down(self)
      [] code = "s" -> show_reading_time(self)
      [] code = "c" -> [self EXCEPT !.popup_text = None]
      [] code = "m" -> show_metadata(self)
      [] OTHER -> self

handle_key_event(self, code) ==
    CASE code = "q" -> exit(self)
      [] code = "Left" -> previous_page(self)
      [] code = "Right" -> next_page(self)
      [] code = "Up" -> scroll_up(self)
      [] code = "Down" -> scroll_down(self)
      [] code = "s" -> show_reading_time(self)
      [] code = "c" -> [self EXCEPT !.popup_text = None, !.show_metadata = None]
      [] code = "m" -> show_metadata(self)
      [] OTHER -> self

\* The match of handle_events on an event that was read: only a key press is
\* dispatched.
handle_events(self, ev) ==
    IF ev.type = "Key" /\ ev.kind = "Press"
    THEN handle_key_event(self, ev.code)
    ELSE self

\* What <&App as Widget>::render and App::draw put on the screen: the lines
\* of the text from scroll_offset on that fit the area, and the popups.
ViewHeight == 2
draw(self) ==
    [page |-> self.page,
     lines |-> SkipTake(self.text, self.scroll_offset, ViewHeight),
     popup_text |-> self.popup_text,
     show_metadata |-> self.show_metadata]


\* ------------------------------------------------------------------- state
VARIABLES
    app,        \* the App struct that main creates and run mutates
    args,       \* the parsed Args
    doc,        \* the container at args.path, as EpubDoc reports it
    file,       \* progress.json in the working directory
    pc,         \* where main is: a position of run, or how the process ended
    tasks,      \* the state of the closure of the parallel map, per page index
    slots,      \* the output slots collect() fills, per page index
    panic,      \* the panic that ended the process, if one did
    frame,      \* what the last terminal.draw put on the screen
    lastEvent,  \* the event the last handle_events read
    before      \* the App struct as it was when that event was read

vars == << app, args, doc, file, pc, tasks, slots, panic, frame, lastEvent, before >>

\* A panic is the source line of the failing unwrap, index or addition, and
\* the page index its message names. No panic message of run names one.
NoIndex == 0 - 1
NoPanic == [line |-> 0, index |-> NoIndex]

NoFrame == [page |-> 0, lines |-> << >>, popup_text |-> None, show_metadata |-> None]

\* crossterm events: key events with their kind, other events (a resize),
\* and the Err that event::read() may return.
KeyCodes == {"q", "Left", "Right", "Up", "Down", "s", "c", "m", "x"}
NoEvent == [type |-> "None", code |-> "", kind |-> ""]
Events ==
    { [type |-> "Key", code |-> c, kind |-> "Press"] : c \in KeyCodes }
    \cup { [type |-> "Key", code |-> "Right", kind |-> "Release"],
           [type |-> "Resize", code |-> "", kind |-> ""],
           [type |-> "Err", code |-> "", kind |-> ""] }

\* Whether the build checks integer overflow.
Builds == {"debug", "release"}

PageIndices == 0 .. (doc.num_pages - 1)

Documents ==
    { [valid |-> FALSE, kind |-> "prose", num_pages |-> 1, metadata |-> << >>] }
    \cup [valid : {TRUE}, kind : DocKinds, num_pages : 1..MaxPages,
          metadata : MetadataSet]

Init ==
    /\ app = DefaultApp
    /\ args \in [path : {ThePath}, words_per_minute : WpmSet]
    /\ doc \in Documents
    /\ file \in InitialFiles
    /\ pc = "load_progress"
    /\ tasks = << >>
    /\ slots = << >>
    /\ panic = NoPanic
    /\ frame = NoFrame
    /\ lastEvent = NoEvent
    /\ before = DefaultApp

\* ---------------------------------------------------------------- start-up
\* A load whose parser saturates a number that does not fit u16 instead of
\* failing.
load_progress_saturating(self, f) ==
    IF f.exists /\ f.wellFormed
    THEN [self EXCEPT !.progress =
            [k \in { e.key : e \in f.members } |->
                LET v == FromDigits((CHOOSE e \in f.members : e.key = k).digits)
                IN IF v >= U16 THEN U16 - 1 ELSE v]]
    ELSE self

\* App::load_progress: a file that cannot be read, or does not parse, leaves
\* the (default, empty) map.
load_progress(self, f) ==
    IF f.exists
    THEN [self EXCEPT !.progress =
            IF from_str(f) = None THEN EmptyMap ELSE from_str(f)[1]]
    ELSE self

LoadProgress ==
    /\ pc = "load_progress"
    /\ app' = load_progress(app, file)
    /\ pc' = "open"
    /\ UNCHANGED << args, doc, file, tasks, slots, panic, frame, lastEvent, before >>

\* EpubDoc::new(&path).unwrap() for num_pages and for metadata.
OpenContainer ==
    /\ pc = "open"
    /\ IF doc.valid
       THEN /\ pc' = "extract"
            /\ tasks' = [i \in PageIndices |-> "pending"]
            /\ slots' = [i \in PageIndices |-> None]
            /\ panic' = panic
       ELSE /\ pc' = "panic"
            /\ panic' = [line |-> 92, index |-> NoIndex]
            /\ UNCHANGED << tasks, slots >>
    /\ UNCHANGED << app, args, doc, file, frame, lastEvent, before >>

Running == { i \in DOMAIN tasks : tasks[i] = "running" }
Failed == { i \in DOMAIN tasks : tasks[i] = "failed" }

\* A worker thread of the pool takes the closure for page i.
TaskStart(i) ==
    /\ pc = "extract"
    /\ tasks[i] = "pending"
    /\ Cardinality(Running) < MaxWorkers
    /\ tasks' = [tasks EXCEPT ![i] = "running"]
    /\ UNCHANGED << app, args, doc, file, pc, slots, panic, frame, lastEvent, before >>

\* The value the closure returns for page i.
PageText(i) == extract_text_from_xhtml(MarkupOf(doc.kind, i))

\* A collect that appends results as the closures return.
SlotOf_completion(i) == Cardinality({ j \in DOMAIN tasks : tasks[j] = "done" })

\* The slot of the collected vector that the result for page i is written to.
SlotOf(i) == i

\* The closure for page i returns and its result is written to its slot.
TaskDone(i) ==
    /\ pc = "extract"
    /\ tasks[i] = "running"
    /\ tasks' = [tasks EXCEPT ![i] = "done"]
    /\ slots' = [slots EXCEPT ![SlotOf(i)] = Some(PageText(i))]
    /\ UNCHANGED << app, args, doc, file, pc, panic, frame, lastEvent, before >>

\* One of the unwraps of the closure for page i panics (the container cannot
\* be opened again, or the page cannot be read).
TaskPanic(i) ==
    /\ pc = "extract"
    /\ tasks[i] = "running"
    /\ tasks' = [tasks EXCEPT ![i] = "failed"]
    /\ UNCHANGED << app, args, doc, file, pc, slots, panic, frame, lastEvent, before >>

\* A join that waits for the closures to end, however they ended.
CollectReady_ended == \A i \in DOMAIN tasks : tasks[i] \in {"done", "failed"}

\* When collect() may return: every closure has returned.
CollectReady == \A i \in DOMAIN tasks : tasks[i] = "done"

\* collect() returns the vector.
Collect ==
    /\ pc = "extract"
    /\ CollectReady
    /\ pc' = "seed"
    /\ UNCHANGED << app, args, doc, file, tasks, slots, panic, frame, lastEvent, before >>

\* The pool resumes a panic of a closure in the caller, once no closure is
\* still running: one panic, whose message is that of the unwrap.
PropagatePanic ==
    /\ pc = "extract"
    /\ Failed # {}
    /\ Running = {}
    /\ pc' = "panic"
    /\ panic' = [line |-> 108, index |-> NoIndex]
    /\ UNCHANGED << app, args, doc, file, tasks, slots, frame, lastEvent, before >>

\* A run that always starts at the first page.
ResumePage_first(self, path) == 0

\* The page run resumes at: the stored one, unwrap_or(&0).
ResumePage(self, path) ==
    IF path \in DOMAIN self.progress THEN self.progress[path] ELSE 0

\* Lines 112-116. The index of line 115 panics when it is out of bounds, and
\* the assignments before it have been made.
Seed ==
    /\ pc = "seed"
    /\ LET content == [i \in 1..doc.num_pages |-> slots[i - 1][1]]
           a == [app EXCEPT !.content = content,
                            !.pages = doc.num_pages % U16,
                            !.page = ResumePage(app, args.path)]
       IN IF a.page + 1 \in DOMAIN a.content
          THEN /\ app' = [a EXCEPT !.text = a.content[a.page + 1],
                                   !.metadata = doc.metadata]
               /\ pc' = "loop"
               /\ panic' = panic
          ELSE /\ app' = a
               /\ pc' = "panic"
               /\ panic' = [line |-> 115, index |-> NoIndex]
    /\ UNCHANGED << args, doc, file, tasks, slots, frame, lastEvent, before >>

\* -------------------------------------------------------------- event loop
\* while !self.exit fails: run returns Ok(()).
LoopExit ==
    /\ pc = "loop"
    /\ app.exit
    /\ pc' = "done"
    /\ UNCHANGED << app, args, doc, file, tasks, slots, panic, frame, lastEvent, before >>

\* Lines 119-121 with a draw that succeeds.
Draw ==
    /\ pc = "loop"
    /\ ~app.exit
    /\ app' = [app EXCEPT !.path = args.path, !.wpm = args.words_per_minute]
    /\ frame' = draw(app')
    /\ pc' = "insert"
    /\ UNCHANGED << args, doc, file, tasks, slots, panic, lastEvent, before >>

\* Lines 119-121 with a draw that returns Err: run returns it.
DrawFails ==
    /\ pc = "loop"
    /\ ~app.exit
    /\ app' = [app EXCEPT !.path = args.path, !.wpm = args.words_per_minute]
    /\ pc' = "io_error"
    /\ UNCHANGED << args, doc, file, tasks, slots, panic, frame, lastEvent, before >>

\* Line 122, and save_progress up to the point where fs::write has created
\* (truncated) the file. When the file cannot be created the unwrap panics.
SaveCreate ==
    /\ pc = "insert"
    /\ app' = [app EXCEPT !.progress = Insert(app.progress, app.path, app.page)]
    /\ \/ /\ file' = Garbled
          /\ pc' = "write"
          /\ panic' = panic
       \/ /\ file' = file
          /\ pc' = "panic"
          /\ panic' = [line |-> 225, index |-> NoIndex]
    /\ UNCHANGED << args, doc, tasks, slots, frame, lastEvent, before >>

\* fs::write writes the serialized map, or fails and the unwrap panics.
SaveWrite ==
    /\ pc = "write"
    /\ \/ /\ file' = to_string(app.progress)
          /\ pc' = "events"
          /\ panic' = panic
       \/ /\ file' = file
          /\ pc' = "panic"
          /\ panic' = [line |-> 225, index |-> NoIndex]
    /\ UNCHANGED << app, args, doc, tasks, slots, frame, lastEvent, before >>

\* The model follows scroll_offset only near the two ends of the u16 range:
\* in 0..MaxScroll and in the last MaxScroll + 1 values below 2^16.
ScrollBounded(self, ev) ==
    /\ (ev.type = "Key" /\ ev.kind = "Press" /\ ev.code = "Down")
          => (self.scroll_offset < MaxScroll
              \/ self.scroll_offset >= U16 - 1 - MaxScroll)
    /\ (ev.type = "Key" /\ ev.kind = "Press" /\ ev.code = "Up")
          => self.scroll_offset # U16 - 1 - MaxScroll

\* Whether handling ev panics on an integer overflow.
HandlerPanics(self, ev, build) ==
    /\ build = "debug"
    /\ ev.type = "Key" /\ ev.kind = "Press" /\ ev.code = "Down"
    /\ scroll_down_overflows(self)

\* Line 124: handle_events reads one event and dispatches it.
HandleEvents ==
    /\ pc = "events"
    /\ \E ev \in Events, build \in Builds :
        /\ ScrollBounded(app, ev)
        /\ lastEvent' = ev
        /\ before' = app
        /\ IF ev.type = "Err"
           THEN /\ pc' = "io_error"
                /\ UNCHANGED << app, panic >>
           ELSE IF HandlerPanics(app, ev, build)
           THEN /\ pc' = "panic"
                /\ panic' = [line |-> 214, index |-> NoIndex]
                /\ app' = app
           ELSE /\ app' = handle_events(app, ev)
                /\ pc' = "loop"
                /\ panic' = panic
    /\ UNCHANGED << args, doc, file, tasks, slots, frame >>

StartNext ==
    \/ LoadProgress
    \/ OpenContainer
    \/ \E i \in DOMAIN tasks : TaskStart(i)
    \/ \E i \in DOMAIN tasks : TaskDone(i)
    \/ \E i \in DOMAIN tasks : TaskPanic(i)
    \/ Collect
    \/ PropagatePanic
    \/ Seed

LoopNext ==
    \/ LoopExit
    \/ Draw
    \/ DrawFails
    \/ SaveCreate
    \/ SaveWrite
    \/ HandleEvents

Next == StartNext \/ LoopNext

Spec == Init /\ [][Next]_vars


\* -------------------------------------------- the loop near the u16 limit
\* Reaching scroll_offset = 65535 takes 65535 presses of <Down>. This second
\* specification starts the event loop in the states those presses lead to:
\* a session that waits for an event, on some page of some document, the
\* last MaxScroll presses of <Down> having brought scroll_offset to s.
PressDown == [type |-> "Key", code |-> "Down", kind |-> "Press"]

SessionAt(d, a, p, s) ==
    [DefaultApp EXCEPT
        !.content = [i \in 1..d.num_pages |->
                        extract_text_from_xhtml(MarkupOf(d.kind, i - 1))],
        !.text = extract_text_from_xhtml(MarkupOf(d.kind, p)),
        !.page = p,
        !.pages = d.num_pages % U16,
        !.path = a.path,
        !.wpm = a.words_per_minute,
        !.scroll_offset = s,
        !.progress = Insert(EmptyMap, a.path, p),
        !.metadata = d.metadata]

InitScroll ==
    \E d \in { x \in Documents : x.valid },
       a \in [path : {ThePath}, words_per_minute : WpmSet] :
      \E p \in 0 .. (d.num_pages - 1), s \in (U16 - MaxScroll) .. (U16 - 1) :
        /\ doc = d
        /\ args = a
        /\ app = SessionAt(d, a, p, s)
        /\ file = to_string(app.progress)
        /\ pc = "events"
        /\ tasks = [i \in 0 .. (d.num_pages - 1) |-> "done"]
        /\ slots = [i \in 0 .. (d.num_pages - 1) |->
                        Some(extract_text_from_xhtml(MarkupOf(d.kind, i)))]
        /\ panic = NoPanic
        /\ frame = draw(app)
        /\ lastEvent = PressDown
        /\ before = SessionAt(d, a, p, s - 1)

SpecScroll == InitScroll /\ [][LoopNext]_vars


\* ------------------------------------------- runs on other documents
\* The program run with other values of --words-per-minute, on documents
\* whose pages have other numbers of words.
MaxTimeWpm == 3

InitTime ==
    /\ app = DefaultApp
    /\ args \in [path : {ThePath}, words_per_minute : 1..MaxTimeWpm]
    /\ doc \in [valid : {TRUE}, kind : {"tract"}, num_pages : 1..MaxPages,
                metadata : {<< >>}]
    /\ file \in InitialFiles
    /\ pc = "load_progress"
    /\ tasks = << >>
    /\ slots = << >>
    /\ panic = NoPanic
    /\ frame = NoFrame
    /\ lastEvent = NoEvent
    /\ before = DefaultApp

SpecTime == InitTime /\ [][Next]_vars

\* The program run in a directory whose progress.json was left by sessions
\* on another document (and on this one): values of one to five digits.
StoredValues == {9, 10, 12345, U16 - 1}

StoredMembers(k, v) == [key |-> k, digits |-> ToDigits(v)]

RoundTripFiles ==
    { JsonText({}) }
    \cup { JsonText({StoredMembers(OtherPath, v)}) : v \in StoredValues }
    \cup { JsonText({StoredMembers(OtherPath, v), StoredMembers(ThePath, 1)}) :
             v \in StoredValues }

InitRoundTrip ==
    /\ app = DefaultApp
    /\ args \in [path : {ThePath}, words_per_minute : WpmSet]
    /\ doc \in [valid : {TRUE}, kind : {"verse"}, num_pages : 1..MaxPages,
                metadata : {<< >>}]
    /\ file \in RoundTripFiles
    /\ pc = "load_progress"
    /\ tasks = << >>
    /\ slots = << >>
    /\ panic = NoPanic
    /\ frame = NoFrame
    /\ lastEvent = NoEvent
    /\ before = DefaultApp

SpecRoundTrip == InitRoundTrip /\ [][Next]_vars

\* ------------------------------------------------------------------ claims
PressKey(c) == [type |-> "Key", code |-> c, kind |-> "Press"]

\* The handler of the last event has just returned to the loop.
Handled(c) == pc = "loop" /\ lastEvent = PressKey(c)

\* run has reached its event loop (or ended from inside it).
InLoop ==
    \/ pc \in {"loop", "insert", "write", "events", "done", "io_error"}
    \/ pc = "panic" /\ panic.line \in {214, 225}

\* The text the extractor gives for page i of the open document.
ExpectedText(i) == extract_text_from_xhtml(MarkupOf(doc.kind, i))

\* C1: once run has set pages (line 113), 0 <= page < pages holds and the
\* index of content by page is in bounds, whatever progress.json held.
C1_PageInBounds ==
    app.pages > 0 =>
        /\ 0 <= app.page /\ app.page < app.pages
        /\ app.page + 1 \in DOMAIN app.content
        /\ panic.line # 115

\* C2: a closure that has returned has its text in the slot of its own page
\* index, whatever the order of completion; and the vector run keeps has one
\* element per page, element i the extracted text of page i.
C2_ExtractionOrdered ==
    /\ \A i \in DOMAIN tasks :
          tasks[i] = "done" => slots[i] = Some(ExpectedText(i))
    /\ pc = "seed" =>
          /\ DOMAIN slots = PageIndices
          /\ \A i \in PageIndices : slots[i] = Some(ExpectedText(i))
    /\ app.content # << >> =>
          /\ Len(app.content) = doc.num_pages
          /\ \A i \in PageIndices : app.content[i + 1] = ExpectedText(i)

\* C2 witness: the last page has completed, and is in its slot, while page 0
\* is still being extracted.
C2_Witness ==
    /\ pc = "extract"
    /\ doc.num_pages = MaxPages
    /\ tasks[0] = "running"
    /\ tasks[MaxPages - 1] = "done"
    /\ slots[MaxPages - 1] = Some(ExpectedText(MaxPages - 1))
    /\ slots[0] = None

\* C3: run is past the parallel extraction only when every page has been
\* extracted; when a page failed, the loop is never entered, no frame is
\* drawn and no event is handled; and the content the session holds is
\* either still empty or complete.
C3_LoadIsAllOrNothing ==
    /\ (pc = "seed" \/ InLoop) =>
          /\ doc.valid
          /\ \A i \in PageIndices : tasks[i] = "done" /\ slots[i] # None
    /\ Failed # {} =>
          /\ ~InLoop
          /\ pc \in {"extract", "panic"}
          /\ frame = NoFrame
          /\ lastEvent = NoEvent
          /\ app.content = << >>
    /\ app.content = << >> \/ Len(app.content) = doc.num_pages

\* C3 witness: the load was aborted by a failed page after another page had
\* been extracted, and the session holds no content.
C3_Witness ==
    /\ pc = "panic"
    /\ panic.line = 108
    /\ \E i \in DOMAIN tasks : tasks[i] = "done" /\ slots[i] # None
    /\ \E i \in DOMAIN tasks : tasks[i] = "failed"
    /\ app.content = << >>

\* C4: when the extraction of a page failed and the load was aborted, the
\* error that is reported names a page whose extraction failed.
C4_ErrorNamesFailedPage ==
    (pc = "panic" /\ Failed # {}) => panic.index \in Failed

\* The page progress.json, as it is on disk, stores for the path (0 if the
\* file is absent, does not parse or has no entry for the path).
StoredPage ==
    IF file.exists /\ from_str(file) # None /\ ThePath \in DOMAIN from_str(file)[1]
    THEN from_str(file)[1][ThePath]
    ELSE 0

\* The session start: the loop is reached and no event has been read yet (the
\* file has not been written yet).
SessionStart == pc = "loop" /\ lastEvent = NoEvent

\* C5: at session start page is the index progress.json stores for the path,
\* or 0 when it stores none; scroll_offset is 0 and no popup is set.
C5_InitialState ==
    SessionStart =>
        /\ app.page = StoredPage
        /\ app.text = ExpectedText(StoredPage)
        /\ app.scroll_offset = 0
        /\ app.popup_text = None
        /\ app.show_metadata = None

\* C5 witness: a session that starts on the stored page 1.
C5_Witness ==
    /\ SessionStart
    /\ StoredPage = 1
    /\ app.page = 1
    /\ OtherPath \in DOMAIN app.progress

\* C6: <Right> on the last page leaves the whole App unchanged; on an earlier
\* page it adds 1 to page, sets scroll_offset to 0 and text to the text of
\* the new page, and changes nothing else.
C6_NextPage ==
    Handled("Right") =>
        IF before.page = before.pages - 1
        THEN app = before
        ELSE /\ before.page < before.pages - 1
             /\ app = [before EXCEPT !.page = before.page + 1,
                                     !.scroll_offset = 0,
                                     !.text = before.content[before.page + 2]]
             /\ app.text = ExpectedText(before.page + 1)

\* C6 witness: <Right> was handled on a page before the last one, with the
\* page scrolled down.
C6_Witness ==
    /\ Handled("Right")
    /\ before.page < before.pages - 1
    /\ before.scroll_offset > 0
    /\ app.page = before.page + 1

\* C7: <Left> on page 0 leaves the whole App unchanged; on a later page it
\* subtracts 1 from page, sets scroll_offset to 0 and text to the text of the
\* new page, and changes nothing else.
C7_PreviousPage ==
    Handled("Left") =>
        IF before.page = 0
        THEN app = before
        ELSE /\ app = [before EXCEPT !.page = before.page - 1,
                                     !.scroll_offset = 0,
                                     !.text = before.content[before.page]]
             /\ app.text = ExpectedText(before.page - 1)

\* C7 witness: <Left> was handled on a page after the first one, with the
\* page scrolled down.
C7_Witness ==
    /\ Handled("Left")
    /\ before.page > 0
    /\ before.scroll_offset > 0
    /\ app.page = before.page - 1

\* C8: when <Right> was handled on a page p with 0 < p < pages - 1 and the
\* next event handled is <Left>, scroll_offset is 0 after the first and after
\* the second, and the second ends on page p.
C8_NextThenPrevious ==
    [][ ( /\ pc = "events"
          /\ lastEvent = PressKey("Right")
          /\ 0 < before.page /\ before.page < before.pages - 1
          /\ pc' = "loop"
          /\ lastEvent' = PressKey("Left") )
        => ( /\ app.page = before.page + 1
             /\ app.scroll_offset = 0
             /\ app'.page = before.page
             /\ app'.scroll_offset = 0
             /\ app'.text = ExpectedText(before.page) ) ]_vars

\* C8 witness: <Right> was handled on a middle page that was scrolled down,
\* and the session waits for the next event.
C8_Witness ==
    /\ pc = "events"
    /\ lastEvent = PressKey("Right")
    /\ 0 < before.page /\ before.page < before.pages - 1
    /\ before.scroll_offset > 0
    /\ app.page = before.page + 1

\* C9: <Up> at scroll_offset 0 leaves the whole App unchanged, at a larger
\* scroll_offset it subtracts exactly 1 and changes nothing else; and
\* scroll_offset is never negative nor wrapped to the top of the u16 range.
C9_ScrollUp ==
    /\ Handled("Up") =>
          IF before.scroll_offset = 0
          THEN app = before
          ELSE app = [before EXCEPT !.scroll_offset = before.scroll_offset - 1]
    /\ 0 <= app.scroll_offset /\ app.scroll_offset <= MaxScroll

\* C9 witness: <Up> was handled at scroll_offset 0.
C9_Witness ==
    /\ Handled("Up")
    /\ before.scroll_offset = 0
    /\ app.scroll_offset = 0

\* C10: handling <Down> never ends the session and leaves scroll_offset one
\* larger than it was, also at the top of the 16 bit range.
C10_ScrollDownIncrements ==
    (lastEvent = PressKey("Down")
        /\ (pc = "loop" \/ (pc = "panic" /\ panic.line = 214))) =>
        /\ pc = "loop"
        /\ app.scroll_offset = before.scroll_offset + 1


\* C11: the reading-time popup and the metadata popup are never both set, so
\* no frame shows two popups.
C11_AtMostOneOverlay ==
    /\ ~(app.popup_text # None /\ app.show_metadata # None)
    /\ ~(frame.popup_text # None /\ frame.show_metadata # None)

\* C12: <c> leaves both popups unset, whichever were set, and changes nothing
\* else of the App (page, scroll_offset and text stay as they were).
C12_CloseOverlay ==
    Handled("c") =>
        /\ app.popup_text = None
        /\ app.show_metadata = None
        /\ app = [before EXCEPT !.popup_text = None, !.show_metadata = None]

\* C12 witness: <c> was handled with both popups set, on a scrolled page
\* after the first.
C12_Witness ==
    /\ Handled("c")
    /\ before.popup_text # None
    /\ before.show_metadata # None
    /\ before.page > 0
    /\ before.scroll_offset > 0
    /\ app.popup_text = None

\* The least integer that is not below n / d, for n >= 0 and d > 0.
ExactCeil(n, d) == (n + d - 1) \div d

\* C13: <s> sets the reading-time popup to ceil(words * 60 / wpm) seconds,
\* words being the number of words of the current page, together with the
\* configured words per minute, and changes nothing else.
C13_ReadingTime ==
    Handled("s") =>
        app = [before EXCEPT !.popup_text =
                 Some([seconds |-> ExactCeil(SumSeq(ExpectedText(before.page)) * 60,
                                             args.words_per_minute),
                       wpm |-> args.words_per_minute])]

\* C14: when run has returned after <q>, progress.json parses to a map that
\* gives the path the page the session was on.
C14_QuitLeavesPageStored ==
    pc = "done" =>
        /\ app.exit
        /\ file.exists /\ file.wellFormed
        /\ ThePath \in { e.key : e \in file.members }
        /\ \A e \in file.members :
              e.key = ThePath => e.digits = ToDigits(app.page)
        /\ StoredPage = app.page

\* C14 witness: the session ended by <q> on page 2 of a document that
\* progress.json did not know, and the file stores 2 for the path.
C14_Witness ==
    /\ pc = "done"
    /\ lastEvent = PressKey("q")
    /\ app.page = 2
    /\ doc.num_pages = 3
    /\ StoredPage = 2
    /\ DOMAIN app.progress = {ThePath}

\* A file that is there and whose text does not give a map of u16 values.
Malformed(f) ==
    f.exists /\ (~f.wellFormed
                 \/ \E e \in f.members :
                       Len(e.digits) > 5 \/ FromDigits(e.digits) >= U16)

\* C15: load_progress ends without an error for every file; a missing or
\* malformed file leaves the empty map, and the session then starts on page 0.
C15_LoadNeverFails ==
    /\ pc = "open" =>
          /\ panic = NoPanic
          /\ (~file.exists \/ Malformed(file)) => app.progress = EmptyMap
    /\ (SessionStart /\ (~file.exists \/ Malformed(file))) =>
          /\ app.progress = EmptyMap
          /\ app.page = 0
          /\ panic = NoPanic

\* C15 witness: a session has started on page 0 with a progress.json whose
\* value does not fit u16.
C15_Witness ==
    /\ SessionStart
    /\ file.wellFormed
    /\ Malformed(file)
    /\ app.page = 0
    /\ app.progress = EmptyMap

\* C16: a write of progress.json that fails does not end the session.
C16_SaveFailureIsNotFatal == ~(pc = "panic" /\ panic.line = 225)

\* C17: once a save has completed, progress.json holds a complete map at
\* every later moment: the one of the last save or the one being saved.
C17_SaveIsAtomic ==
    (InLoop /\ lastEvent # NoEvent) =>
        /\ file.exists /\ file.wellFormed
        /\ from_str(file) # None
        /\ ThePath \in DOMAIN from_str(file)[1]

\* C18: whenever progress.json holds a complete map with the path, the page
\* it stores is the page of the last frame drawn or the page the session has
\* moved to since: no frame shows a page the file has not been given yet.
C18_StoreNotOlderThanFrame ==
    ( /\ pc \in {"loop", "insert", "write", "events"}
      /\ frame # NoFrame
      /\ file.exists /\ from_str(file) # None
      /\ ThePath \in DOMAIN from_str(file)[1] )
    => from_str(file)[1][ThePath] \in {frame.page, app.page}

\* C19: what load_progress gives for a file that save_progress has written
\* is the map that was saved, entries of other documents included; and the
\* file of the empty map loads as the empty map.
C19_RoundTrip ==
    /\ pc = "events" =>
          /\ file.exists
          /\ from_str(file) = Some(app.progress)
          /\ load_progress(DefaultApp, file).progress = app.progress
    /\ (pc = "open" /\ file = JsonText({})) => app.progress = EmptyMap

\* C19 witness: a map with a five-digit entry of another document and the
\* entry of this one has been saved.
C19_Witness ==
    /\ pc = "events"
    /\ DOMAIN app.progress = {OtherPath, ThePath}
    /\ app.progress[OtherPath] = U16 - 1
    /\ app.progress[ThePath] = 2
    /\ file.wellFormed

\* C20: in the event loop the cached text is the text of the current page.
C20_TextIsCurrentPage ==
    (pc \in {"loop", "insert", "write", "events", "done", "io_error"}) =>
        /\ app.page + 1 \in DOMAIN app.content
        /\ app.text = app.content[app.page + 1]
        /\ app.text = ExpectedText(app.page)

\* C20 witness: <Right> then <Left> style navigation has changed the page and
\* the popup was then asked for on the new page.
C20_Witness ==
    /\ Handled("s")
    /\ app.page > 0
    /\ frame.page = app.page
    /\ app.text # app.content[1]
    /\ app.popup_text # None

====
